---- MODULE Spec2Model ----
(***************************************************************************)
(* pydeadcode: the DeadCodeAnalyzer of src/analyzer.rs and the driver of   *)
(* src/main.rs.                                                            *)
(*                                                                         *)
(* Identifier text is a sequence of one-character strings, so that         *)
(* starts_with('_') and the dotted text of an attribute node are computed. *)
(* A file's content is represented by the concrete syntax tree that the    *)
(* tree-sitter Python grammar yields for it (an external library): nodes   *)
(* carry kind, 0-based start row, source text, the index of the child in   *)
(* the "name" field (0 when the node has no such field) and all children,  *)
(* anonymous tokens included.                                              *)
(***************************************************************************)
EXTENDS Integers, Sequences, FiniteSets, TLC

VARIABLES defined_names, used_names, analyzed, calls, results,
          args, flags, idx, pc, exit_code, stdout

vars == <<defined_names, used_names, analyzed, calls, results,
          args, flags, idx, pc, exit_code, stdout>>

(* Bounds of the model. *)
MaxCalls == 3
MaxArgs == 2

(* ------------------------------------------------------------------ *)
(* Identifier texts used by the fixture files.                          *)
nHelper == <<"h", "e", "l", "p", "e", "r">>
nMain == <<"m", "a", "i", "n">>
nF == <<"f">>
nG == <<"g">>
nPriv == <<"_", "p">>
nObj == <<"o", "b", "j">>
nDeco == <<"d", "e", "c", "o">>
nK == <<"K">>
nSelf == <<"s", "e", "l", "f">>

(* ------------------------------------------------------------------ *)
(* Syntax-tree nodes as tree-sitter-python shapes them.                 *)
Node(kind, row, text, nameIdx, children) ==
    [kind |-> kind, row |-> row, text |-> text, nameIdx |-> nameIdx,
     children |-> children]

Tok(kind, row) == Node(kind, row, <<>>, 0, <<>>)

Ident(text, row) == Node("identifier", row, text, 0, <<>>)

(* obj.attr: one attribute node whose text is the whole dotted text and   *)
(* whose children are the object, the dot and the attribute identifier.   *)
Attr(obj, attr, row) ==
    Node("attribute", row, obj.text \o <<".">> \o attr.text, 0,
         <<obj, Tok(".", row), attr>>)

Call(fn, row) ==
    Node("call", row, <<>>, 0, <<fn, Node("argument_list", row, <<>>, 0, <<>>)>>)

ExprStmt(expr, row) == Node("expression_statement", row, <<>>, 0, <<expr>>)

PassStmt(row) == Node("pass_statement", row, <<>>, 0, <<>>)

(* def name(params): body -- the "name" field is the identifier child.    *)
FuncDef(name, row, params, body) ==
    Node("function_definition", row, <<>>, 2,
         <<Tok("def", row), Ident(name, row),
           Node("parameters", row, <<>>, 0, params),
           Node("block", row, <<>>, 0, body)>>)

(* class name: body -- the "name" field is the identifier child.          *)
ClassDef(name, row, body) ==
    Node("class_definition", row, <<>>, 2,
         <<Tok("class", row), Ident(name, row),
           Node("block", row + 1, <<>>, 0, body)>>)

(* @expr (newline) definition -- the wrapper has a "definition" field and *)
(* no "name" field.                                                       *)
Decorated(expr, row, def) ==
    Node("decorated_definition", row, <<>>, 0,
         <<Node("decorator", row, <<>>, 0, <<Tok("@", row), expr>>), def>>)

Module(children) == Node("module", 0, <<>>, 0, children)

(* ------------------------------------------------------------------ *)
(* Fixture files.                                                       *)

(* def helper():        line 1                                           *)
(*     pass                                                              *)
(*                                                                       *)
(* def main():          line 4                                           *)
(*     helper()                                                          *)
TreeHelperMain ==
    Module(<<FuncDef(nHelper, 0, <<>>, <<PassStmt(1)>>),
             FuncDef(nMain, 3, <<>>, <<ExprStmt(Call(Ident(nHelper, 4), 4), 4)>>)>>)

(* @deco                line 1                                           *)
(* def f(): pass        line 2                                           *)
(* def _p(): pass       line 3                                           *)
(* obj.g                line 4                                           *)
TreeDecorated ==
    Module(<<Decorated(Ident(nDeco, 0), 0, FuncDef(nF, 1, <<>>, <<PassStmt(1)>>)),
             FuncDef(nPriv, 2, <<>>, <<PassStmt(2)>>),
             ExprStmt(Attr(Ident(nObj, 3), Ident(nG, 3), 3), 3)>>)

(* class K:             line 1                                           *)
(*     def g(self): pass   line 2                                        *)
TreeClass ==
    Module(<<ClassDef(nK, 0, <<FuncDef(nG, 1, <<Ident(nSelf, 1)>>, <<PassStmt(1)>>)>>)>>)

(* def f(): pass        line 1                                           *)
TreeF == Module(<<FuncDef(nF, 0, <<>>, <<PassStmt(0)>>)>>)

(* main                 line 1  (a text file holding one word)           *)
TreeWord == Module(<<ExprStmt(Ident(nMain, 0), 0)>>)

TreeEmpty == Module(<<>>)

(* ------------------------------------------------------------------ *)
(* The file system the run sees.                                        *)
FsFile(ext, readable, tree) ==
    [type |-> "file", ext |-> ext, readable |-> readable, tree |-> tree,
     entries |-> {}]

FsDir(entries) ==
    [type |-> "dir", ext |-> "", readable |-> FALSE, tree |-> TreeEmpty,
     entries |-> entries]

FsMissing ==
    [type |-> "missing", ext |-> "py", readable |-> FALSE, tree |-> TreeEmpty,
     entries |-> {}]

Paths == {"a.py", "d", "d/b.py", "d/c.py", "d/notes.txt",
          "e", "e/bad.py", "e/ok.py", "nope.py"}

FS ==
    [p \in Paths |->
        CASE p = "a.py" -> FsFile("py", TRUE, TreeHelperMain)
          [] p = "d" -> FsDir({"d/b.py", "d/c.py", "d/notes.txt"})
          [] p = "d/b.py" -> FsFile("py", TRUE, TreeDecorated)
          [] p = "d/c.py" -> FsFile("py", TRUE, TreeClass)
          [] p = "d/notes.txt" -> FsFile("txt", TRUE, TreeWord)
          [] p = "e" -> FsDir({"e/bad.py", "e/ok.py"})
          [] p = "e/bad.py" -> FsFile("py", FALSE, TreeEmpty)
          [] p = "e/ok.py" -> FsFile("py", TRUE, TreeF)
          [] OTHER -> FsMissing]

(* Paths a caller passes. *)
ArgPaths == {"a.py", "d", "d/b.py", "d/notes.txt", "e", "e/ok.py", "nope.py"}

(* Byte order of the path strings, as String::cmp orders them. *)
PathRank ==
    [p \in Paths |->
        CASE p = "a.py" -> 1
          [] p = "d" -> 2
          [] p = "d/b.py" -> 3
          [] p = "d/c.py" -> 4
          [] p = "d/notes.txt" -> 5
          [] p = "e" -> 6
          [] p = "e/bad.py" -> 7
          [] p = "e/ok.py" -> 8
          [] OTHER -> 9]

is_file(path) == FS[path].type = "file"

is_dir(path) == FS[path].type = "dir"

(* e.path().extension().map_or(false, |ext| ext == "py") *)
HasPyExtension(path) == FS[path].ext = "py"

RECURSIVE PermsOf(_)
PermsOf(S) ==
    IF S = {} THEN {<<>>}
    ELSE UNION {{<<x>> \o p : p \in PermsOf(S \ {x})} : x \in S}

(* WalkDir::new(path): the root first, then its entries in the order the  *)
(* operating system lists them, which is any order.                       *)
WalkDir(path) == {<<path>> \o o : o \in PermsOf(FS[path].entries)}

(* std::fs::read_to_string *)
read_to_string(file_path) ==
    [ok |-> FS[file_path].type = "file" /\ FS[file_path].readable,
     content |-> FS[file_path].tree]

(* parser.parse(&content, None): Some(tree) with the language set and no  *)
(* timeout or cancellation flag.                                          *)
Parse(content) == [some |-> TRUE, root |-> content]

(* ------------------------------------------------------------------ *)
(* DeadCodeAnalyzer                                                     *)

EmptyMap == <<>>

(* entry(name).or_insert_with(Vec::new).push(loc) *)
PushLocation(defs, name, loc) ==
    IF name \in DOMAIN defs
    THEN [defs EXCEPT ![name] = Append(@, loc)]
    ELSE defs @@ (name :> <<loc>>)

(* *entry(text).or_insert(0) += 1 *)
Increment(used, text) ==
    IF text \in DOMAIN used
    THEN [used EXCEPT ![text] = @ + 1]
    ELSE used @@ (text :> 1)

(* node.child_by_field_name("name") *)
HasNameField(node) == node.nameIdx # 0

NameNode(node) == node.children[node.nameIdx]

RECURSIVE extract_definitions(_, _, _)
RECURSIVE extract_definitions_children(_, _, _, _)
extract_definitions(defs, node, file_path) ==
    LET here ==
          IF /\ node.kind \in {"function_definition", "decorated_definition"}
             /\ HasNameField(node)
          THEN LET name == NameNode(node).text
                   line == node.row + 1
                   d1 == PushLocation(defs, name, <<file_path, line>>)
               IN IF node.kind = "import_statement"
                  THEN PushLocation(d1, name, <<file_path, line>>)
                  ELSE d1
          ELSE defs
    IN extract_definitions_children(here, node.children, 1, file_path)

extract_definitions_children(defs, children, i, file_path) ==
    IF i > Len(children) THEN defs
    ELSE extract_definitions_children(
             extract_definitions(defs, children[i], file_path),
             children, i + 1, file_path)

RECURSIVE extract_usage(_, _)
RECURSIVE extract_usage_children(_, _, _)
(* Variant: the identifier in a definition's "name" field is not a usage. *)
extract_usage_refs_only(used, node) ==
    LET here ==
          IF node.kind \in {"identifier", "attribute"}
          THEN Increment(used, node.text)
          ELSE used
        kids ==
          IF node.kind = "function_definition" /\ HasNameField(node)
          THEN SelectSeq(node.children, LAMBDA c : c # NameNode(node))
          ELSE node.children
    IN extract_usage_children(here, kids, 1)

extract_usage(used, node) ==
    LET here ==
          IF node.kind \in {"identifier", "attribute"}
          THEN Increment(used, node.text)
          ELSE used
    IN extract_usage_children(here, node.children, 1)

extract_usage_children(used, children, i) ==
    IF i > Len(children) THEN used
    ELSE extract_usage_children(extract_usage(used, children[i]), children, i + 1)

(* The analyzer's maps, the files analyze_file was called on, and whether *)
(* the call returned Ok.                                                  *)
AnalyzerState(defs, used, log, ok) ==
    [defined_names |-> defs, used_names |-> used, analyzed |-> log, ok |-> ok]

analyze_file(st, file_path) ==
    LET read == read_to_string(file_path)
        failed == AnalyzerState(st.defined_names, st.used_names,
                                Append(st.analyzed, [path |-> file_path, ok |-> FALSE]),
                                FALSE)
    IN IF ~read.ok THEN failed
       ELSE LET tree == Parse(read.content)
            IN IF ~tree.some THEN failed
               ELSE AnalyzerState(
                        extract_definitions(st.defined_names, tree.root, file_path),
                        extract_usage(st.used_names, tree.root),
                        Append(st.analyzed, [path |-> file_path, ok |-> TRUE]),
                        TRUE)

(* The for loop of analyze_path: `?` leaves at the first failing file. *)
RECURSIVE analyze_files(_, _, _)
(* Variant: a failing file is skipped and the walk goes on. *)
analyze_files_continue(st, files, i) ==
    IF i > Len(files) THEN st
    ELSE LET next == analyze_file(st, files[i])
         IN analyze_files(
                AnalyzerState(next.defined_names, next.used_names, next.analyzed, TRUE),
                files, i + 1)

analyze_files(st, files, i) ==
    IF i > Len(files) THEN st
    ELSE LET next == analyze_file(st, files[i])
         IN IF next.ok THEN analyze_files(next, files, i + 1) ELSE next

analyze_path(st, path, walk) ==
    IF is_file(path) THEN analyze_file(st, path)
    ELSE IF is_dir(path)
         THEN analyze_files(st, SelectSeq(walk, HasPyExtension), 1)
         ELSE st

Confidence == 80

Size == 0

DeadCodeItem(file, line, name) ==
    [file |-> file, line |-> line, name |-> name, code_type |-> "function/class",
     confidence |-> Confidence, size |-> Size]

(* name.starts_with('_') *)
starts_with_underscore(name) == Len(name) > 0 /\ name[1] = "_"

ItemsOf(name, locations) ==
    [i \in 1..Len(locations) |-> DeadCodeItem(locations[i][1], locations[i][2], name)]

(* Variant: every recorded definition site is emitted, unfiltered. *)
RECURSIVE get_results_no_filter(_, _, _)
get_results_no_filter(defs, used, order) ==
    IF order = <<>> THEN <<>>
    ELSE ItemsOf(Head(order), defs[Head(order)])
             \o get_results_no_filter(defs, used, Tail(order))

(* Variant: the usage test is inverted. *)
RECURSIVE get_results_used_inverted(_, _, _)
get_results_used_inverted(defs, used, order) ==
    IF order = <<>> THEN <<>>
    ELSE LET name == Head(order)
             rest == get_results_used_inverted(defs, used, Tail(order))
         IN IF name \in DOMAIN used /\ ~starts_with_underscore(name)
            THEN ItemsOf(name, defs[name]) \o rest
            ELSE rest

(* get_results, with the HashMap's iteration order over the names given. *)
RECURSIVE get_results(_, _, _)
get_results(defs, used, order) ==
    IF order = <<>> THEN <<>>
    ELSE LET name == Head(order)
             rest == get_results(defs, used, Tail(order))
         IN IF name \notin DOMAIN used /\ ~starts_with_underscore(name)
            THEN ItemsOf(name, defs[name]) \o rest
            ELSE rest

(* ------------------------------------------------------------------ *)
(* The analyzer driven through its two public operations.               *)

Current == AnalyzerState(defined_names, used_names, analyzed, TRUE)

WalksOf(path) == IF is_dir(path) THEN WalkDir(path) ELSE {<<path>>}

MainVars == <<args, flags, idx, pc, exit_code, stdout>>

NoOutput == [kind |-> "none", items |-> <<>>]

Init ==
    /\ defined_names = EmptyMap
    /\ used_names = EmptyMap
    /\ analyzed = <<>>
    /\ calls = <<>>
    /\ results = <<>>
    /\ args = <<>>
    /\ flags = [json |-> FALSE, sort_by_size |-> FALSE]
    /\ idx = 1
    /\ pc = "api"
    /\ exit_code = 0
    /\ stdout = NoOutput

AnalyzePath(path) ==
    /\ pc = "api"
    /\ Len(calls) < MaxCalls
    /\ \E walk \in WalksOf(path) :
         LET r == analyze_path(Current, path, walk)
         IN /\ defined_names' = r.defined_names
            /\ used_names' = r.used_names
            /\ analyzed' = r.analyzed
            /\ calls' = Append(calls, [op |-> "analyze_path", path |-> path, ok |-> r.ok])
    /\ UNCHANGED <<results, MainVars>>

(* Variant: the definition map is moved out of the analyzer. *)
GetResultsTake ==
    /\ pc = "api"
    /\ Len(calls) < MaxCalls
    /\ \E order \in PermsOf(DOMAIN defined_names) :
         results' = get_results(defined_names, used_names, order)
    /\ defined_names' = EmptyMap
    /\ calls' = Append(calls, [op |-> "get_results", path |-> "", ok |-> TRUE])
    /\ UNCHANGED <<used_names, analyzed, MainVars>>

GetResults ==
    /\ pc = "api"
    /\ Len(calls) < MaxCalls
    /\ \E order \in PermsOf(DOMAIN defined_names) :
         results' = get_results(defined_names, used_names, order)
    /\ calls' = Append(calls, [op |-> "get_results", path |-> "", ok |-> TRUE])
    /\ UNCHANGED <<defined_names, used_names, analyzed, MainVars>>

Next == (\E path \in ArgPaths : AnalyzePath(path)) \/ GetResults

Spec == Init /\ [][Next]_vars

(* ------------------------------------------------------------------ *)
(* main.rs                                                              *)

RECURSIVE SeqsUpTo(_, _)
SeqsUpTo(S, n) ==
    IF n = 0 THEN {<<>>}
    ELSE SeqsUpTo(S, n - 1)
             \cup {Append(q, x) : q \in {r \in SeqsUpTo(S, n - 1) : Len(r) = n - 1}, x \in S}

(* std::cmp::Reverse(r.size) *)
LargerSize(a, b) == a.size > b.size

(* a.file.cmp(&b.file).then_with(|| a.line.cmp(&b.line)) *)
FileThenLine(a, b) ==
    \/ PathRank[a.file] < PathRank[b.file]
    \/ PathRank[a.file] = PathRank[b.file] /\ a.line < b.line

Before(a, b, by_size) == IF by_size THEN LargerSize(a, b) ELSE FileThenLine(a, b)

(* Vec::sort_by / sort_by_key: a stable sort. *)
RECURSIVE InsertSorted(_, _, _)
InsertSorted(sorted, item, by_size) ==
    IF sorted = <<>> THEN <<item>>
    ELSE IF Before(item, Head(sorted), by_size) THEN <<item>> \o sorted
         ELSE <<Head(sorted)>> \o InsertSorted(Tail(sorted), item, by_size)

RECURSIVE StableSort(_, _)
StableSort(items, by_size) ==
    IF items = <<>> THEN <<>>
    ELSE InsertSorted(StableSort(SubSeq(items, 1, Len(items) - 1), by_size),
                      items[Len(items)], by_size)

Report(found) ==
    IF found = <<>> THEN [kind |-> "no_dead_code", items |-> <<>>]
    ELSE IF flags.json THEN [kind |-> "json", items |-> found]
    ELSE [kind |-> "table", items |-> StableSort(found, flags.sort_by_size)]

MainInit ==
    /\ defined_names = EmptyMap
    /\ used_names = EmptyMap
    /\ analyzed = <<>>
    /\ calls = <<>>
    /\ results = <<>>
    /\ args \in SeqsUpTo(ArgPaths, MaxArgs)
    /\ flags \in [json : BOOLEAN, sort_by_size : BOOLEAN]
    /\ idx = 1
    /\ pc = "loop"
    /\ exit_code = 0
    /\ stdout = NoOutput

MainNoPaths ==
    /\ pc = "loop"
    /\ args = <<>>
    /\ pc' = "exited"
    /\ exit_code' = 1
    /\ UNCHANGED <<defined_names, used_names, analyzed, calls, results,
                   args, flags, idx, stdout>>

MainAnalyzePath ==
    /\ pc = "loop"
    /\ idx <= Len(args)
    /\ \E walk \in WalksOf(args[idx]) :
         LET r == analyze_path(Current, args[idx], walk)
         IN /\ defined_names' = r.defined_names
            /\ used_names' = r.used_names
            /\ analyzed' = r.analyzed
            /\ calls' = Append(calls, [op |-> "analyze_path", path |-> args[idx],
                                       ok |-> r.ok])
            /\ IF r.ok
               THEN idx' = idx + 1 /\ UNCHANGED <<pc, exit_code>>
               ELSE pc' = "exited" /\ exit_code' = 1 /\ UNCHANGED idx
    /\ UNCHANGED <<results, args, flags, stdout>>

MainReport ==
    /\ pc = "loop"
    /\ args # <<>>
    /\ idx > Len(args)
    /\ \E order \in PermsOf(DOMAIN defined_names) :
         LET found == get_results(defined_names, used_names, order)
         IN results' = found /\ stdout' = Report(found)
    /\ calls' = Append(calls, [op |-> "get_results", path |-> "", ok |-> TRUE])
    /\ pc' = "exited"
    /\ exit_code' = 0
    /\ UNCHANGED <<defined_names, used_names, analyzed, args, flags, idx>>

MainNext == MainNoPaths \/ MainAnalyzePath \/ MainReport

MainSpec == MainInit /\ [][MainNext]_vars

(* ------------------------------------------------------------------ *)
(* Properties.                                                          *)

Count(seq, x) == Cardinality({i \in DOMAIN seq : seq[i] = x})

Range(seq) == {seq[i] : i \in DOMAIN seq}

SameBag(a, b) == \A x \in Range(a) \cup Range(b) : Count(a, x) = Count(b, x)

(* The last call made was get_results, so `results` is what it returned   *)
(* for the present maps.                                                  *)
LastIsGet == calls # <<>> /\ calls[Len(calls)].op = "get_results"

Named(name) == {k \in DOMAIN results : results[k].name = name}

TimesAnalyzed(file) ==
    Cardinality({i \in DOMAIN analyzed : analyzed[i].path = file /\ analyzed[i].ok})

AnalyzedFiles == {analyzed[i].path : i \in {j \in DOMAIN analyzed : analyzed[j].ok}}

(* The definition sites of a tree as the specification counts them: every *)
(* function definition and every class definition, <<name, line>>.        *)
RECURSIVE DefSites(_)
RECURSIVE DefSitesOfChildren(_, _)
DefSites(node) ==
    (IF node.kind \in {"function_definition", "class_definition"}
     THEN <<(<<NameNode(node).text, node.row + 1>>)>>
     ELSE <<>>) \o DefSitesOfChildren(node.children, 1)

DefSitesOfChildren(children, i) ==
    IF i > Len(children) THEN <<>>
    ELSE DefSites(children[i]) \o DefSitesOfChildren(children, i + 1)

(* The names a tree refers to: identifiers outside the name position of a *)
(* definition, and the trailing component of an attribute access.         *)
RECURSIVE References(_)
References(node) ==
    LET isDef == node.kind \in {"function_definition", "class_definition"}
        kids == {i \in DOMAIN node.children : ~(isDef /\ i = node.nameIdx)}
    IN (IF node.kind = "identifier" THEN {node.text} ELSE {})
       \cup (IF node.kind = "attribute" THEN {node.children[3].text} ELSE {})
       \cup UNION {References(node.children[i]) : i \in kids}

DefinedIn(name, file) ==
    \E i \in DOMAIN DefSites(FS[file].tree) : DefSites(FS[file].tree)[i][1] = name

ReferencedInCorpus(name) ==
    \E file \in AnalyzedFiles : name \in References(FS[file].tree)

RecordedCount(name, file, line) ==
    IF name \in DOMAIN defined_names
    THEN Count(defined_names[name], <<file, line>>)
    ELSE 0

ExpectedCount(name, file, line) ==
    TimesAnalyzed(file) * Count(DefSites(FS[file].tree), <<name, line>>)

(* C1: for the corpus of the one file "def helper(): pass" (line 1),      *)
(* "def main(): helper()" (line 4), get_results returns exactly one       *)
(* finding, named main at line 4, and none named helper.                  *)
C1_HelperMainExample ==
    (LastIsGet /\ analyzed = <<[path |-> "a.py", ok |-> TRUE]>>)
        => /\ Len(results) = 1
           /\ results[1].name = nMain
           /\ results[1].line = 4
           /\ Named(nHelper) = {}

(* C2: analyze_path on a path that is neither a file nor a directory      *)
(* returns an error, and the run then ends in failure with nothing        *)
(* printed.                                                               *)
C2_MissingPathIsError ==
    /\ \A i \in DOMAIN calls :
         (calls[i].op = "analyze_path" /\ FS[calls[i].path].type = "missing")
             => ~calls[i].ok
    /\ (pc = "exited" /\ \E i \in DOMAIN args : FS[args[i]].type = "missing")
           => exit_code = 1 /\ stdout = NoOutput

(* C3: a name not starting with an underscore that is defined as a        *)
(* function in two different files and referenced nowhere in the corpus   *)
(* yields exactly two findings, one per definition site.                  *)
C3_TwoSitesTwoFindings ==
    (LastIsGet /\ \A i \in DOMAIN calls : calls[i].ok) =>
      \A name \in DOMAIN defined_names :
        \A f1, f2 \in AnalyzedFiles :
          ( /\ f1 # f2
            /\ AnalyzedFiles = {f1, f2}
            /\ TimesAnalyzed(f1) = 1 /\ TimesAnalyzed(f2) = 1
            /\ DefinedIn(name, f1) /\ DefinedIn(name, f2)
            /\ Len(defined_names[name]) = 2
            /\ ~starts_with_underscore(name)
            /\ ~ReferencedInCorpus(name) )
          => /\ Cardinality(Named(name)) = 2
             /\ {results[k].file : k \in Named(name)} = {f1, f2}

(* C4: a name defined once and referenced anywhere in the analyzed corpus *)
(* (same file, another file analyzed earlier or later, or as the trailing *)
(* component of obj.f) has no finding, whatever the order of analysis.    *)
C4_UsageSuppression ==
    LastIsGet =>
      \A name \in DOMAIN defined_names :
        (Len(defined_names[name]) = 1 /\ ReferencedInCorpus(name))
            => Named(name) = {}

C4_Witness ==
    /\ LastIsGet
    /\ nG \in DOMAIN defined_names
    /\ Len(defined_names[nG]) = 1
    /\ Len(analyzed) = 2
    /\ analyzed[1].path = "d/b.py"
    /\ analyzed[2].path = "d/c.py"
    /\ nG \in References(FS["d/b.py"].tree)
    /\ nG \notin References(FS["d/c.py"].tree)
    /\ Named(nG) = {}

(* C5: get_results never contains a finding whose name starts with an     *)
(* underscore.                                                            *)
C5_UnderscoreNeverReported ==
    LastIsGet => \A k \in DOMAIN results : ~starts_with_underscore(results[k].name)

C5_Witness ==
    /\ LastIsGet
    /\ nPriv \in DOMAIN defined_names
    /\ starts_with_underscore(nPriv)
    /\ Named(nPriv) = {}

(* C6: every function definition node and every class definition node of *)
(* an analyzed file, decorated or not, adds exactly one record under its  *)
(* declared name with the file and the 1-based line, and nothing else     *)
(* adds a record.                                                         *)
C6_OneRecordPerDefinition ==
    /\ \A file \in AnalyzedFiles :
         \A s \in Range(DefSites(FS[file].tree)) :
           RecordedCount(s[1], file, s[2]) = ExpectedCount(s[1], file, s[2])
    /\ \A name \in DOMAIN defined_names :
         \A loc \in Range(defined_names[name]) :
           RecordedCount(name, loc[1], loc[2]) = ExpectedCount(name, loc[1], loc[2])

(* C7: get_results is a pure read: a call leaves the definition map and   *)
(* the usage counter unchanged, and a call that follows another with no   *)
(* analysis in between returns the same multiset of findings.             *)
C7_GetResultsPureRead ==
    [][(calls' # calls /\ calls'[Len(calls')].op = "get_results")
          => /\ defined_names' = defined_names
             /\ used_names' = used_names
             /\ (LastIsGet => SameBag(results', results))]_vars

C7_Witness ==
    /\ Len(calls) = 3
    /\ calls[1].op = "analyze_path" /\ calls[1].ok
    /\ calls[2].op = "get_results"
    /\ calls[3].op = "get_results"
    /\ DOMAIN defined_names # {}

(* A file lies under an argument when it is that path or an entry of that *)
(* directory.                                                             *)
Under(file, root) == file = root \/ file \in FS[root].entries

(* C8: files are analyzed in the order of the arguments; the first file   *)
(* that fails is the last one analyzed, the run ends in failure,          *)
(* get_results is not called and nothing is printed.                      *)
C8_FirstFailureAborts ==
    /\ \A i \in DOMAIN analyzed : i < Len(analyzed) => analyzed[i].ok
    /\ \A i \in DOMAIN calls :
         calls[i].op = "analyze_path" => calls[i].path = args[i]
    /\ \A i, j \in DOMAIN analyzed :
         i < j => \E k, l \in DOMAIN args :
                    /\ k <= l /\ l <= idx
                    /\ Under(analyzed[i].path, args[k])
                    /\ Under(analyzed[j].path, args[l])
    /\ (analyzed # <<>> /\ ~analyzed[Len(analyzed)].ok)
          => /\ pc = "exited"
             /\ exit_code = 1
             /\ stdout = NoOutput
             /\ results = <<>>
             /\ \A i \in DOMAIN calls : calls[i].op # "get_results"

C8_Witness ==
    /\ Len(analyzed) = 2
    /\ analyzed[1].ok
    /\ ~analyzed[2].ok
    /\ DOMAIN defined_names # {}
    /\ pc = "exited"
    /\ stdout = NoOutput

(* C9: get_results holds at most one finding per definition site, also    *)
(* when the analyzed paths overlap.                                       *)
C9_NoDuplicateFindings ==
    LastIsGet =>
      \A i, j \in DOMAIN results :
        ( /\ results[i].file = results[j].file
          /\ results[i].line = results[j].line
          /\ results[i].name = results[j].name ) => i = j

C9_Witness ==
    /\ LastIsGet
    /\ \E file \in AnalyzedFiles :
         /\ TimesAnalyzed(file) = 2
         /\ \E name \in DOMAIN defined_names :
              \E line \in 1..4 : RecordedCount(name, file, line) = 2

(* C10: every key of the definition map is a key of the usage counter,    *)
(* and get_results returns an empty sequence.                             *)
C10_DefinedNamesAreUsed ==
    /\ DOMAIN defined_names \subseteq DOMAIN used_names
    /\ LastIsGet => results = <<>>

C10_Witness ==
    /\ LastIsGet
    /\ nMain \in DOMAIN defined_names
    /\ nMain \in DOMAIN used_names
    /\ ~ReferencedInCorpus(nMain)
    /\ results = <<>>

====
